---- MODULE Spec2Model ----
(***************************************************************************)
(* A model of the blitter pipeline (irv/blitter, streaming/):              *)
(*                                                                         *)
(*   RunJpylyzer.mapper    the probe stage: fetch + analyse with retries   *)
(*   GenerateBlit.mapper   the transform stage: parse, to_blit, serialise  *)
(*   GenerateBlitZip.run   the archive stage: one zip entry per record     *)
(*   genblit.to_blit       the pure descriptor transformation              *)
(*                                                                         *)
(* Text is modelled as a sequence of atoms (strings that the code never    *)
(* looks inside): "ark:/81055/x" is <<"ark:/81055/", "x">>, so replace,    *)
(* startswith, strip and split act on atoms as the Python calls act on     *)
(* the substrings.                                                         *)
(*                                                                         *)
(* Two specifications:                                                     *)
(*   Spec      a batch of input lines going through the three stages       *)
(*   SpecBlit  to_blit applied to descriptors drawn from bounded sets      *)
(***************************************************************************)
EXTENDS Integers, Sequences, FiniteSets, TLC

\* ------------------------------------------------------------------------
\* Bounds of the model
\* ------------------------------------------------------------------------
\* longest batch of input lines
MaxBatch == 2
\* largest decomposition level count of a descriptor
MaxLevels == 7

\* ------------------------------------------------------------------------
\* Python helpers
\* ------------------------------------------------------------------------
Min(a, b) == IF a < b THEN a ELSE b

\* seq[i] with a Python (0-based) index
At(seq, i) == seq[i + 1]

\* s[1:]
DropFirst(s) == IF s = <<>> THEN <<>> ELSE Tail(s)

\* ",".join(parts)
RECURSIVE JoinComma(_)
JoinComma(parts) ==
    IF parts = <<>> THEN <<>>
    ELSE IF Len(parts) = 1 THEN <<parts[1]>>
    ELSE <<parts[1], ",">> \o JoinComma(Tail(parts))

\* [str(x) for x in range(lo, hi)]
RECURSIVE StrRange(_, _)
StrRange(lo, hi) ==
    IF lo >= hi THEN <<>> ELSE <<ToString(lo)>> \o StrRange(lo + 1, hi)

\* ------------------------------------------------------------------------
\* The jpylyzer document (the argument of to_blit)
\*
\* Each element that to_blit looks up is a field holding the outcome of
\* find(): Absent (find returned None) or an element with its text.  A text
\* is a decimal number, a fraction "num/den", or words (atoms).
\* ------------------------------------------------------------------------
Absent == [kind |-> "absent", num |-> 0, den |-> 0, word |-> <<>>]
Num(n) == [kind |-> "num", num |-> n, den |-> 0, word |-> <<>>]
Frac(a, b) == [kind |-> "frac", num |-> a, den |-> b, word |-> <<>>]
Word(w) == [kind |-> "word", num |-> 0, den |-> 0, word |-> w]

\* str(e) of the exceptions the code can raise
ErrNoFind == "'NoneType' object has no attribute 'find'"
ErrNoText == "'NoneType' object has no attribute 'text'"
ErrInt == "invalid literal for int() with base 10"
ErrUnpack == "need more than 1 value to unpack"
ErrZeroDiv == "float division by zero"
ErrIndex == "list index out of range"

\* the outcome of a computation that may raise
Raise(e) == [ok |-> FALSE, err |-> e]
Return(v) == [ok |-> TRUE, err |-> "", val |-> v]

\* "irreversible" in text
ContainsIrreversible(t) ==
    \E k \in 1..Len(t.word) : t.word[k] = "irreversible"

\* int(text): the number, or ValueError
IntErr(t) ==
    IF t.kind = "absent" THEN ErrNoText
    ELSE IF t.kind # "num" THEN ErrInt
    ELSE ""

\* the first error of a sequence of checks made in order ("" when none)
RECURSIVE FirstErr(_)
FirstErr(errs) ==
    IF errs = <<>> THEN ""
    ELSE IF errs[1] # "" THEN errs[1]
    ELSE FirstErr(Tail(errs))

\* find(...).text of an element that must exist
TextErr(t) == IF t.kind = "absent" THEN ErrNoText ELSE ""

\* ------------------------------------------------------------------------
\* genblit.to_blit
\* ------------------------------------------------------------------------

\* the innermost except branch: the generic (tiff) resolution fractions.
\* resh is the blit:y element and resv the blit:x element; the second
\* unpacking binds "demon", so the second quotient divides by the first
\* fraction's denominator.
ResolutionFallback(d) ==
    IF d.tiffX.kind = "absent" THEN Raise(ErrNoText)
    ELSE IF d.tiffX.kind # "frac" THEN Raise(ErrUnpack)
    ELSE IF d.tiffX.den = 0 THEN Raise(ErrZeroDiv)
    ELSE IF d.tiffY.kind = "absent" THEN Raise(ErrNoText)
    ELSE IF d.tiffY.kind # "frac" THEN Raise(ErrUnpack)
    ELSE Return([x |-> Num(d.tiffY.num \div d.tiffX.den),
                 y |-> Num(d.tiffX.num \div d.tiffX.den),
                 source |-> "generic"])

\* Resolution with a display branch that keeps a capture value already set
ResolutionKeepsCapture(d) ==
    IF d.capH.kind # "absent" /\ d.capV.kind # "absent"
    THEN Return([x |-> d.capH, y |-> d.capV, source |-> "capture"])
    ELSE IF d.dispH.kind # "absent" /\ d.dispV.kind # "absent"
    THEN Return([x |-> IF d.capH.kind # "absent" THEN d.capH ELSE d.dispH,
                 y |-> d.dispV, source |-> "display"])
    ELSE ResolutionFallback(d)

\* the try / except / except chain that fills blit:x and blit:y
Resolution(d) ==
    IF d.capH.kind # "absent" /\ d.capV.kind # "absent"
    THEN Return([x |-> d.capH, y |-> d.capV, source |-> "capture"])
    ELSE IF d.dispH.kind # "absent" /\ d.dispV.kind # "absent"
    THEN Return([x |-> d.dispH, y |-> d.dispV, source |-> "display"])
    ELSE ResolutionFallback(d)

\* TileClamp with the second test copied from the first without renaming
TileClampCopied(xsiz, ysiz, xTsiz, yTsiz) ==
    [x |-> IF xTsiz > xsiz THEN xsiz ELSE xTsiz,
     y |-> IF yTsiz > xsiz THEN xsiz ELSE yTsiz]

\* tile dimensions, falling back on image size if tile size is larger
TileClamp(xsiz, ysiz, xTsiz, yTsiz) ==
    [x |-> IF xTsiz > xsiz THEN xsiz ELSE xTsiz,
     y |-> IF yTsiz > ysiz THEN ysiz ELSE yTsiz]

\* the jp2_tile element
Tile(d) ==
    LET t == TileClamp(d.xsiz.num, d.ysiz.num, d.xTsiz.num, d.yTsiz.num)
    IN  [dwt_level |-> JoinComma(StrRange(1, d.levels.num + 1)),
         x |-> Num(t.x), y |-> Num(t.y)]

\* the state of the precinct loop before its first iteration
PrecinctInit(Psx) ==
    [dwt_levels |-> <<>>, currSize |-> At(Psx, 6), runs |-> <<>>]

\* PrecinctBody without the reset of dwt_levels when a run is closed
PrecinctBodyNoReset(Psx, l, st) ==
    LET i == Len(Psx) - l
        close == i = 0 \/ st.currSize # At(Psx, i)
        run == [dwt_level |-> DropFirst(st.dwt_levels),
                x |-> st.currSize, y |-> st.currSize]
        st1 == IF close
               THEN [dwt_levels |-> st.dwt_levels, currSize |-> At(Psx, i),
                     runs |-> Append(st.runs, run)]
               ELSE st
    IN  [st1 EXCEPT !.dwt_levels = st1.dwt_levels \o <<",", ToString(l)>>]

\* one iteration of the precinct loop, for level l
PrecinctBody(Psx, l, st) ==
    LET i == Len(Psx) - l
        close == i = 0 \/ st.currSize # At(Psx, i)
        run == [dwt_level |-> DropFirst(st.dwt_levels),
                x |-> st.currSize, y |-> st.currSize]
        st1 == IF close
               THEN [dwt_levels |-> <<>>, currSize |-> At(Psx, i),
                     runs |-> Append(st.runs, run)]
               ELSE st
    IN  [st1 EXCEPT !.dwt_levels = st1.dwt_levels \o <<",", ToString(l)>>]

\* for l in range(1, len(Psx) + 1), from level l on
RECURSIVE PrecinctLoop(_, _, _)
PrecinctLoop(Psx, l, st) ==
    IF l >= Len(Psx) + 1 THEN st
    ELSE PrecinctLoop(Psx, l + 1, PrecinctBody(Psx, l, st))

\* the jp2_precinct elements, or IndexError
Precincts(d) ==
    IF Len(d.Psx) < 7 THEN Raise(ErrIndex)
    ELSE Return(PrecinctLoop(d.Psx, 1, PrecinctInit(d.Psx)).runs)

to_blit(d) ==
    LET res == Resolution(d)
        e1 == FirstErr(<<TextErr(d.width), TextErr(d.height)>>)
        e2 == FirstErr(<<TextErr(d.nC), TextErr(d.bPCDepth),
                         TextErr(d.transformation),
                         TextErr(d.codeBlockWidth), TextErr(d.codeBlockHeight),
                         TextErr(d.layers), TextErr(d.order),
                         TextErr(d.levels),
                         IntErr(d.xsiz), IntErr(d.ysiz),
                         IntErr(d.xTsiz), IntErr(d.yTsiz),
                         IntErr(d.levels), TextErr(d.precincts)>>)
        enabled == d.precincts = Word(<<"yes">>)
        pre == IF enabled THEN Precincts(d) ELSE Return(<<>>)
    IN  IF ~d.properties THEN Raise(ErrNoFind)
        ELSE IF e1 # "" THEN Raise(e1)
        ELSE IF ~res.ok THEN Raise(res.err)
        ELSE IF e2 # "" THEN Raise(e2)
        ELSE IF ~pre.ok THEN Raise(pre.err)
        ELSE Return([width |-> d.width, height |-> d.height,
                     resx |-> res.val.x, resy |-> res.val.y,
                     channels |-> d.nC, bitsperchannel |-> d.bPCDepth,
                     compression |-> IF ContainsIrreversible(d.transformation)
                                     THEN "JPEG2000_Lossy"
                                     ELSE "JPEG2000_Lossless",
                     cbx |-> d.codeBlockWidth, cby |-> d.codeBlockHeight,
                     layers |-> d.layers, order |-> d.order,
                     levels |-> d.levels, tile |-> Tile(d),
                     has_precincts |-> enabled, precincts |-> pre.val])

\* ------------------------------------------------------------------------
\* Descriptors
\* ------------------------------------------------------------------------

\* a well-formed jpylyzer document: 6 levels, 7 precinct sizes
DefaultDescriptor ==
    [properties |-> TRUE,
     width |-> Num(4000), height |-> Num(3000),
     capH |-> Num(300), capV |-> Num(300),
     dispH |-> Absent, dispV |-> Absent,
     tiffX |-> Absent, tiffY |-> Absent,
     nC |-> Num(3), bPCDepth |-> Num(8),
     transformation |-> Word(<<"9-7 ", "irreversible">>),
     codeBlockWidth |-> Num(64), codeBlockHeight |-> Num(64),
     layers |-> Num(1), order |-> Word(<<"RPCL">>),
     levels |-> Num(6),
     xsiz |-> Num(4000), ysiz |-> Num(3000),
     xTsiz |-> Num(5000), yTsiz |-> Num(5000),
     precincts |-> Word(<<"yes">>),
     Psx |-> <<Num(128), Num(128), Num(128), Num(64), Num(64), Num(32), Num(32)>>,
     Psy |-> <<Num(128), Num(128), Num(128), Num(64), Num(64), Num(32), Num(32)>>]

\* image and nominal tile sizes
TileSizes == {3000, 4000, 5000}
\* precinct sizes
PrecinctSizes == {Num(32), Num(64), Num(128)}
\* numerators and denominators of the generic resolution fractions
FracNums == {7, 300, 600}
FracDens == {0, 1, 2}

TileInputs ==
    {[DefaultDescriptor EXCEPT !.xsiz = Num(a), !.ysiz = Num(b),
                               !.xTsiz = Num(c), !.yTsiz = Num(e)] :
        a \in TileSizes, b \in TileSizes, c \in TileSizes, e \in TileSizes}

\* level count L with L+1 precinct sizes p, precincts enabled or not
PrecinctInput(L, p, f) ==
    [DefaultDescriptor EXCEPT !.levels = Num(L), !.Psx = p, !.Psy = p,
                              !.precincts = Word(<<f>>)]

FracTexts ==
    {Absent, Num(300)} \cup {Frac(a, b) : a \in FracNums, b \in FracDens}

ResolutionInputs ==
    {[DefaultDescriptor EXCEPT !.capH = ch, !.capV = cv,
                               !.dispH = dh, !.dispV = dv,
                               !.tiffX = tx, !.tiffY = ty] :
        ch \in {Absent, Num(300)}, cv \in {Absent, Num(400)},
        dh \in {Absent, Num(72)}, dv \in {Absent, Num(96)},
        tx \in FracTexts, ty \in FracTexts}

\* documents with one required element missing or not a number
MalformedInputs ==
    {[DefaultDescriptor EXCEPT !.properties = FALSE]}
    \cup {[DefaultDescriptor EXCEPT ![f] = Absent] :
            f \in {"width", "height", "nC", "bPCDepth", "transformation",
                   "codeBlockWidth", "codeBlockHeight", "layers", "order",
                   "levels", "xsiz", "ysiz", "xTsiz", "yTsiz", "precincts"}}
    \cup {[DefaultDescriptor EXCEPT ![f] = Word(<<"abc">>)] :
            f \in {"levels", "xsiz", "ysiz", "xTsiz", "yTsiz"}}
    \cup {[DefaultDescriptor EXCEPT !.transformation = Word(<<"5-3 ", "reversible">>)]}

BlitInputs == TileInputs \cup ResolutionInputs \cup MalformedInputs

\* a required element is missing or a number does not parse
MissingOrUnparseable(d) ==
    \/ ~d.properties
    \/ \E f \in {"width", "height", "nC", "bPCDepth", "transformation",
                 "codeBlockWidth", "codeBlockHeight", "layers", "order",
                 "levels", "xsiz", "ysiz", "xTsiz", "yTsiz", "precincts"} :
          d[f].kind = "absent"
    \/ \E f \in {"levels", "xsiz", "ysiz", "xTsiz", "yTsiz"} : d[f].kind # "num"
    \/ ~Resolution(d).ok

\* ------------------------------------------------------------------------
\* Text of the record streams
\* ------------------------------------------------------------------------
ArkPrefix == "ark:/81055/"
HeaderSentinel == <<"ContentFileUID">>
XmlDecl == "<?xml version='1.0' encoding='UTF-8'?>"
ErrXmlSyntax == "syntax error: line 1, column 0"

\* s.replace("ark:/81055/", "")
StripArk(s) == SelectSeq(s, LAMBDA a : a # ArkPrefix)

\* s.replace('\n', ' ').replace('\r', '')
RECURSIVE StripNewlines(_)
StripNewlines(s) ==
    IF s = <<>> THEN <<>>
    ELSE IF s[1] = "\n" THEN <<" ">> \o StripNewlines(Tail(s))
    ELSE IF s[1] = "\r" THEN StripNewlines(Tail(s))
    ELSE <<s[1]>> \o StripNewlines(Tail(s))

\* s.startswith("FAIL ")
StartsWithFail(s) == Len(s) > 0 /\ s[1] = "FAIL "

IsSpace(a) == a \in {" ", "\t", "\n", "\r"}

\* s.lstrip()
RECURSIVE LStrip(_)
LStrip(s) ==
    IF s = <<>> THEN <<>>
    ELSE IF IsSpace(s[1]) THEN LStrip(Tail(s))
    ELSE s

\* s.rstrip()
RECURSIVE RStrip(_)
RStrip(s) ==
    IF s = <<>> THEN <<>>
    ELSE IF IsSpace(s[Len(s)]) THEN RStrip(SubSeq(s, 1, Len(s) - 1))
    ELSE s

\* s.strip()
Strip(s) == RStrip(LStrip(s))

\* key, value = s.split("\t", 1): ValueError unless s holds a tab
SplitTab(s) ==
    IF \E k \in 1..Len(s) : s[k] = "\t"
    THEN LET k == CHOOSE k \in 1..Len(s) :
                     s[k] = "\t" /\ \A j \in 1..(k - 1) : s[j] # "\t"
         IN  Return([key |-> SubSeq(s, 1, k - 1),
                     value |-> SubSeq(s, k + 1, Len(s))])
    ELSE Raise(ErrUnpack)

\* a record of a stage's output file: <key><tab><value>
FormatLine(rec) == rec.key \o <<"\t">> \o rec.value

\* "FAIL %i %s" % (retries, line)
FailKey(n, line) == <<"FAIL ", ToString(n), " ">> \o line

\* "Error: %s" % e
ErrorText(e) == <<"Error: ", e>>

\* "FAIL with: %s" % e
FailWith(e) == <<"FAIL ", "with: ", e>>

\* the documents the analyzer returns in the pipeline: a well-formed one,
\* one with a missing element, one with 2 levels
PipelineDescriptors ==
    {DefaultDescriptor,
     [DefaultDescriptor EXCEPT !.width = Absent],
     [DefaultDescriptor EXCEPT !.levels = Num(2),
                               !.Psx = <<Num(64), Num(64), Num(32)>>,
                               !.Psy = <<Num(64), Num(64), Num(32)>>]}

\* what urlopen / checkOneFileData raise
ProbeErrors == {"connection refused", "timed out"}

\* ET.tostring(jpylyzer_xml, 'UTF-8', 'xml') followed by the newline strip
JpylyzerToString(d) ==
    StripNewlines(<<XmlDecl, "\n", "<jpylyzer>", ToString(d), "</jpylyzer>">>)

\* ET.fromstring(text): the document, or ParseError
FromString(text) ==
    IF /\ Len(text) = 5
       /\ text[1] = XmlDecl /\ IsSpace(text[2])
       /\ text[3] = "<jpylyzer>" /\ text[5] = "</jpylyzer>"
       /\ \E d \in PipelineDescriptors : ToString(d) = text[4]
    THEN Return(CHOOSE d \in PipelineDescriptors : ToString(d) = text[4])
    ELSE Raise(ErrXmlSyntax)

\* ET.tostring(blit_xml, 'UTF-8', 'xml') followed by the newline strip
BlitToString(b) ==
    StripNewlines(<<XmlDecl, "\n", "<blit:blimagetech>", ToString(b),
                    "</blit:blimagetech>">>)

\* ------------------------------------------------------------------------
\* GenerateBlit.mapper, as a function of its input line: the records it
\* yields
\* ------------------------------------------------------------------------

\* TransformFailure with the payload of the probe stage's except branch
TransformFailureErrorText(line, e) == [key |-> FailWith(e), value |-> ErrorText(e)]

\* the except branch
TransformFailure(line, e) == [key |-> FailWith(e), value |-> line]

\* the try block
TransformTry(line) ==
    LET parts == SplitTab(Strip(line))
        doc == FromString(parts.val.value)
        blit == to_blit(doc.val)
    IN  IF ~parts.ok THEN TransformFailure(line, parts.err)
        ELSE IF ~doc.ok THEN TransformFailure(line, doc.err)
        ELSE IF ~blit.ok THEN TransformFailure(line, blit.err)
        ELSE [key |-> parts.val.key, value |-> BlitToString(blit.val)]

\* TransformMapper without the test for an upstream failure
TransformMapperPassFail(line) ==
    IF line = <<>> THEN <<>>
    ELSE IF StartsWithFail(line)
    THEN <<[key |-> SplitTab(line).val.key, value |-> SplitTab(line).val.value]>>
    ELSE <<TransformTry(line)>>

TransformMapper(line) ==
    IF line = <<>> THEN <<>>
    ELSE IF StartsWithFail(line) THEN <<>>
    ELSE <<TransformTry(line)>>

\* ------------------------------------------------------------------------
\* GenerateBlitZip.run, one line: the entry written, or ValueError
\* ------------------------------------------------------------------------
ZipEntry(line) ==
    LET parts == SplitTab(Strip(line))
    IN  IF ~parts.ok THEN Raise(parts.err)
        ELSE Return([name |-> StripArk(parts.val.key) \o <<".xml">>,
                     content |-> parts.val.value])

\* ------------------------------------------------------------------------
\* State
\* ------------------------------------------------------------------------
VARIABLES
    input,              \* the lines of the identifier list
    stage,              \* the job that runs: "probe", "transform", "archive",
                        \* then "done" or "failed" ("off" under SpecBlit)
    idx,                \* the line (of input) the running job works on
    pc,                 \* position inside RunJpylyzer.mapper
    out_key,            \* locals of RunJpylyzer.mapper
    jpylyzer_xml_out,
    retries,
    succeeded,
    probeLog,           \* per line: attempts made, sleeps, last exception,
                        \* whether an attempt succeeded (history)
    probeOut,           \* per line: the records RunJpylyzer.mapper yielded
    blitOut,            \* per line: the records GenerateBlit.mapper yielded
    zip,                \* the entries of the zip file, in the order written
    written,            \* the lines whose record is in the zip
    blitIn,             \* SpecBlit: the argument of to_blit
    blitPc,             \* SpecBlit: "ready", "done" ("idle" under Spec)
    blitOutcome         \* SpecBlit: what to_blit returned or raised

vars == <<input, stage, idx, pc, out_key, jpylyzer_xml_out, retries, succeeded,
          probeLog, probeOut, blitOut, zip, written, blitIn, blitPc, blitOutcome>>

probeLocals == <<out_key, jpylyzer_xml_out, retries, succeeded>>
blitVars == <<blitIn, blitPc, blitOutcome>>
archiveVars == <<zip, written>>

\* the lines of an identifier list: blank, the header, identifiers
InputLines ==
    {<<>>, HeaderSentinel, <<"x">>, <<ArkPrefix, "x">>, <<" ">>}

NoLog == [tries |-> 0, sleeps |-> 0, lastErr |-> "", succeeded |-> FALSE]

\* the first line from j on for which the previous job left a record
RECURSIVE NextRec(_, _)
NextRec(outs, j) ==
    IF j > Len(outs) THEN j
    ELSE IF outs[j] # <<>> THEN j
    ELSE NextRec(outs, j + 1)

Init ==
    /\ input \in [1..MaxBatch -> InputLines]
    /\ stage = "probe"
    /\ idx = 1
    /\ pc = "start"
    /\ out_key = <<>>
    /\ jpylyzer_xml_out = <<>>
    /\ retries = 0
    /\ succeeded = FALSE
    /\ probeLog = [i \in 1..MaxBatch |-> NoLog]
    /\ probeOut = [i \in 1..MaxBatch |-> <<>>]
    /\ blitOut = [i \in 1..MaxBatch |-> <<>>]
    /\ zip = <<>>
    /\ written = {}
    /\ blitIn = DefaultDescriptor
    /\ blitPc = "idle"
    /\ blitOutcome = Raise("")

\* ------------------------------------------------------------------------
\* RunJpylyzer.mapper
\* ------------------------------------------------------------------------

\* if line == '' or line == 'ContentFileUID': return
ProbeSkip ==
    /\ stage = "probe" /\ pc = "start" /\ idx <= Len(input)
    /\ input[idx] = <<>> \/ input[idx] = HeaderSentinel
    /\ idx' = idx + 1
    /\ UNCHANGED <<input, stage, pc, probeLocals, probeLog, probeOut, blitOut,
                   archiveVars, blitVars>>

\* ProbeBegin with the test for the blank line only
ProbeBeginHeader ==
    /\ stage = "probe" /\ pc = "start" /\ idx <= Len(input)
    /\ ~(input[idx] = <<>>)
    /\ out_key' = input[idx]
    /\ jpylyzer_xml_out' = <<>>
    /\ retries' = 0
    /\ succeeded' = FALSE
    /\ pc' = "while"
    /\ UNCHANGED <<input, stage, idx, probeLog, probeOut, blitOut,
                   archiveVars, blitVars>>

\* the assignments before the loop
ProbeBegin ==
    /\ stage = "probe" /\ pc = "start" /\ idx <= Len(input)
    /\ ~(input[idx] = <<>> \/ input[idx] = HeaderSentinel)
    /\ out_key' = input[idx]
    /\ jpylyzer_xml_out' = <<>>
    /\ retries' = 0
    /\ succeeded' = FALSE
    /\ pc' = "while"
    /\ UNCHANGED <<input, stage, idx, probeLog, probeOut, blitOut,
                   archiveVars, blitVars>>

\* LoopCond without the test of succeeded
LoopCondNoSuccess(s, r) == r < 3

\* LoopCond with the bound off by one
LoopCondFour(s, r) == ~s /\ r < 4

\* while not succeeded and retries < 3
LoopCond(s, r) == ~s /\ r < 3

\* ProbeWhile that sleeps before every attempt, the first included
ProbeWhileSleepAlways ==
    /\ stage = "probe" /\ pc = "while"
    /\ pc' = IF LoopCond(succeeded, retries) THEN "sleep" ELSE "yield"
    /\ UNCHANGED <<input, stage, idx, probeLocals, probeLog, probeOut, blitOut,
                   archiveVars, blitVars>>

\* the loop test, and the test "if retries > 0" that follows it
ProbeWhile ==
    /\ stage = "probe" /\ pc = "while"
    /\ pc' = IF LoopCond(succeeded, retries)
             THEN (IF retries > 0 THEN "sleep" ELSE "try")
             ELSE "yield"
    /\ UNCHANGED <<input, stage, idx, probeLocals, probeLog, probeOut, blitOut,
                   archiveVars, blitVars>>

\* ProbeSleep that goes back to the loop test instead of on to the attempt
ProbeSleepRestart ==
    /\ stage = "probe" /\ pc = "sleep"
    /\ pc' = "while"
    /\ UNCHANGED <<input, stage, idx, probeLocals, probeLog, probeOut, blitOut,
                   archiveVars, blitVars>>

\* time.sleep(30)
ProbeSleep ==
    /\ stage = "probe" /\ pc = "sleep"
    /\ pc' = "try"
    /\ probeLog' = [probeLog EXCEPT ![idx].sleeps = @ + 1]
    /\ UNCHANGED <<input, stage, idx, probeLocals, probeOut, blitOut,
                   archiveVars, blitVars>>

\* the try block runs to its end: the download (of the URL made from
\* StripArk(line)) and the analysis return document d
ProbeTrySucceed(d) ==
    /\ stage = "probe" /\ pc = "try"
    /\ jpylyzer_xml_out' = JpylyzerToString(d)
    /\ succeeded' = TRUE
    /\ pc' = "while"
    /\ probeLog' = [probeLog EXCEPT ![idx].tries = @ + 1,
                                    ![idx].succeeded = TRUE]
    /\ UNCHANGED <<input, stage, idx, out_key, retries, probeOut, blitOut,
                   archiveVars, blitVars>>

\* the try block raises e: the except branch
ProbeTryFail(e) ==
    /\ stage = "probe" /\ pc = "try"
    /\ retries' = retries + 1
    /\ out_key' = FailKey(retries + 1, input[idx])
    /\ jpylyzer_xml_out' = ErrorText(e)
    /\ pc' = "while"
    /\ probeLog' = [probeLog EXCEPT ![idx].tries = @ + 1,
                                    ![idx].lastErr = e]
    /\ UNCHANGED <<input, stage, idx, succeeded, probeOut, blitOut,
                   archiveVars, blitVars>>

\* yield out_key, jpylyzer_xml_out
ProbeYield ==
    /\ stage = "probe" /\ pc = "yield"
    /\ probeOut' = [probeOut EXCEPT ![idx] =
                       Append(@, [key |-> out_key, value |-> jpylyzer_xml_out])]
    /\ idx' = idx + 1
    /\ pc' = "start"
    /\ out_key' = <<>>
    /\ jpylyzer_xml_out' = <<>>
    /\ retries' = 0
    /\ succeeded' = FALSE
    /\ UNCHANGED <<input, stage, probeLog, blitOut, archiveVars, blitVars>>

\* every line is mapped: GenerateBlit, which requires RunJpylyzer, starts
ProbeJobDone ==
    /\ stage = "probe" /\ pc = "start" /\ idx > Len(input)
    /\ stage' = "transform"
    /\ idx' = NextRec(probeOut, 1)
    /\ UNCHANGED <<input, pc, probeLocals, probeLog, probeOut, blitOut,
                   archiveVars, blitVars>>

\* ------------------------------------------------------------------------
\* GenerateBlit.mapper on the record of line idx
\* ------------------------------------------------------------------------
TransformMap ==
    /\ stage = "transform" /\ idx <= Len(input)
    /\ blitOut' = [blitOut EXCEPT ![idx] =
                      TransformMapper(FormatLine(probeOut[idx][1]))]
    /\ idx' = NextRec(probeOut, idx + 1)
    /\ UNCHANGED <<input, stage, pc, probeLocals, probeLog, probeOut,
                   archiveVars, blitVars>>

\* every record is mapped: GenerateBlitZip, which requires GenerateBlit, starts
TransformJobDone ==
    /\ stage = "transform" /\ idx > Len(input)
    /\ stage' = "archive"
    /\ UNCHANGED <<input, idx, pc, probeLocals, probeLog, probeOut, blitOut,
                   archiveVars, blitVars>>

\* ------------------------------------------------------------------------
\* GenerateBlitZip.run
\* ------------------------------------------------------------------------

\* WriteStr that keeps only the entry written last
WriteStrTruncate(z, name, content) == <<[name |-> name, content |-> content]>>

\* ZipFile.writestr(name, content): appends an entry; a name already in
\* the archive is not refused
WriteStr(z, name, content) == Append(z, [name |-> name, content |-> content])

\* the records not yet read from the input file
Pending == {i \in 1..Len(input) : blitOut[i] # <<>>} \ written

\* one iteration of "for line in in_file"; the records of the file come in
\* any order
ArchiveWrite(i) ==
    /\ stage = "archive" /\ i \in Pending
    /\ LET e == ZipEntry(FormatLine(blitOut[i][1]))
       IN  IF e.ok
           THEN /\ zip' = WriteStr(zip, e.val.name, e.val.content)
                /\ written' = written \cup {i}
                /\ stage' = stage
           ELSE /\ stage' = "failed"
                /\ UNCHANGED <<zip, written>>
    /\ UNCHANGED <<input, idx, pc, probeLocals, probeLog, probeOut, blitOut,
                   blitVars>>

\* the file is read to its end: the zip is closed
ArchiveClose ==
    /\ stage = "archive" /\ Pending = {}
    /\ stage' = "done"
    /\ UNCHANGED <<input, idx, pc, probeLocals, probeLog, probeOut, blitOut,
                   archiveVars, blitVars>>

Next ==
    \/ ProbeSkip
    \/ ProbeBegin
    \/ ProbeWhile
    \/ ProbeSleep
    \/ \E d \in PipelineDescriptors : ProbeTrySucceed(d)
    \/ \E e \in ProbeErrors : ProbeTryFail(e)
    \/ ProbeYield
    \/ ProbeJobDone
    \/ TransformMap
    \/ TransformJobDone
    \/ \E i \in 1..MaxBatch : ArchiveWrite(i)
    \/ ArchiveClose

Spec == Init /\ [][Next]_vars

\* ------------------------------------------------------------------------
\* to_blit on its own
\* ------------------------------------------------------------------------
InitBlit ==
    /\ input = <<>>
    /\ stage = "off"
    /\ idx = 1
    /\ pc = "start"
    /\ out_key = <<>>
    /\ jpylyzer_xml_out = <<>>
    /\ retries = 0
    /\ succeeded = FALSE
    /\ probeLog = <<>>
    /\ probeOut = <<>>
    /\ blitOut = <<>>
    /\ zip = <<>>
    /\ written = {}
    /\ \/ blitIn \in BlitInputs
       \/ \E L \in 1..MaxLevels : \E p \in [1..(L + 1) -> PrecinctSizes] :
             \E f \in {"yes", "no"} : blitIn = PrecinctInput(L, p, f)
    /\ blitPc = "ready"
    /\ blitOutcome = Raise("")

CallToBlit ==
    /\ blitPc = "ready"
    /\ blitOutcome' = to_blit(blitIn)
    /\ blitPc' = "done"
    /\ UNCHANGED <<input, stage, idx, pc, probeLocals, probeLog, probeOut,
                   blitOut, archiveVars, blitIn>>

NextBlit == CallToBlit

SpecBlit == InitBlit /\ [][NextBlit]_vars

\* ------------------------------------------------------------------------
\* Properties of to_blit (SpecBlit)
\* ------------------------------------------------------------------------
Enabled(d) == d.precincts = Word(<<"yes">>)

\* the descriptor has level count L >= 1 and L+1 precinct sizes
LevelsMatch(d) ==
    /\ d.levels.kind = "num" /\ d.levels.num >= 1
    /\ Len(d.Psx) = d.levels.num + 1

\* the level a decimal atom of a level tag denotes
LevelOf(a) == CHOOSE n \in 0..(MaxLevels + 2) : ToString(n) = a

\* the levels a tag lists, in the order listed
RECURSIVE TagLevels(_)
TagLevels(tag) ==
    IF tag = <<>> THEN <<>>
    ELSE IF tag[1] = "," THEN TagLevels(Tail(tag))
    ELSE <<LevelOf(tag[1])>> \o TagLevels(Tail(tag))

\* the levels of all runs, in emission order
RECURSIVE RunLevels(_)
RunLevels(runs) ==
    IF runs = <<>> THEN <<>>
    ELSE TagLevels(runs[1].dwt_level) \o RunLevels(Tail(runs))

\* C4: to_blit returns a BlitDescriptor for every well-formed descriptor
\* with precincts enabled, whatever its level count L >= 1 (with L+1
\* precinct sizes); it fails only on a missing or unparseable field.
C4_TransformTotal ==
    (/\ blitPc = "done"
     /\ Enabled(blitIn) /\ LevelsMatch(blitIn)
     /\ ~MissingOrUnparseable(blitIn))
    => blitOutcome.ok

\* C5: the level tags of the PrecinctRuns of a produced BlitDescriptor, read
\* in emission order, list the levels 1, 2, ..., L: ascending, contiguous,
\* each level exactly once and no other level.
C5_PrecinctPartition ==
    (/\ blitPc = "done" /\ blitOutcome.ok
     /\ blitOutcome.val.has_precincts /\ LevelsMatch(blitIn))
    => LET levels == RunLevels(blitOutcome.val.precincts)
       IN  /\ Len(levels) = blitIn.levels.num
           /\ \A l \in 1..Len(levels) : levels[l] = l
           /\ \A k \in 1..Len(blitOutcome.val.precincts) :
                 LET tag == blitOutcome.val.precincts[k].dwt_level
                 IN  JoinComma([j \in 1..Len(TagLevels(tag)) |->
                                   ToString(TagLevels(tag)[j])]) = tag

\* the scenario of 6 levels with sizes [128,128,128,64,64,32,32]: three runs
C5_Witness ==
    /\ blitPc = "done" /\ blitOutcome.ok
    /\ blitIn.Psx = <<Num(128), Num(128), Num(128), Num(64), Num(64), Num(32), Num(32)>>
    /\ blitOutcome.val.precincts =
          <<[dwt_level |-> <<"1", ",", "2">>, x |-> Num(32), y |-> Num(32)],
            [dwt_level |-> <<"3", ",", "4">>, x |-> Num(64), y |-> Num(64)],
            [dwt_level |-> <<"5", ",", "6">>, x |-> Num(128), y |-> Num(128)]>>

\* C6: the effective tile is the nominal tile clamped to the image: width
\* min(xTsiz, xsiz), height min(yTsiz, ysiz), so never larger than the image.
C6_TileClamp ==
    (blitPc = "done" /\ blitOutcome.ok)
    => /\ blitOutcome.val.tile.x = Num(Min(blitIn.xTsiz.num, blitIn.xsiz.num))
       /\ blitOutcome.val.tile.y = Num(Min(blitIn.yTsiz.num, blitIn.ysiz.num))
       /\ blitOutcome.val.tile.x.num <= blitIn.xsiz.num
       /\ blitOutcome.val.tile.y.num <= blitIn.ysiz.num

\* nominal 5000x5000 on a 4000x3000 image gives 4000x3000
C6_Witness ==
    /\ blitPc = "done" /\ blitOutcome.ok
    /\ blitIn.xsiz = Num(4000) /\ blitIn.ysiz = Num(3000)
    /\ blitIn.xTsiz = Num(5000) /\ blitIn.yTsiz = Num(5000)
    /\ blitOutcome.val.tile.x = Num(4000)
    /\ blitOutcome.val.tile.y = Num(3000)

\* C7: with no capture and no display resolution and generic fractions a/b
\* (X) and c/d (Y), the output x resolution is trunc(a/b) and the y
\* resolution trunc(c/d), each from its own fraction.
C7_ResolutionFallback ==
    (/\ blitPc = "done"
     /\ blitIn.capH = Absent /\ blitIn.capV = Absent
     /\ blitIn.dispH = Absent /\ blitIn.dispV = Absent
     /\ blitIn.tiffX.kind = "frac" /\ blitIn.tiffX.den # 0
     /\ blitIn.tiffY.kind = "frac" /\ blitIn.tiffY.den # 0)
    => /\ blitOutcome.ok
       /\ blitOutcome.val.resx = Num(blitIn.tiffX.num \div blitIn.tiffX.den)
       /\ blitOutcome.val.resy = Num(blitIn.tiffY.num \div blitIn.tiffY.den)

\* ------------------------------------------------------------------------
\* Properties of the pipeline (Spec)
\* ------------------------------------------------------------------------
Lines == 1..Len(input)

\* the line is an identifier: not blank, not the header
Valid(line) == line # <<>> /\ line # HeaderSentinel

\* RunJpylyzer.mapper has returned for line i with a record
Probed(i) == probeOut[i] # <<>>

\* GenerateBlit has mapped every record
TransformOver == stage \in {"archive", "done", "failed"}

\* GenerateBlit.mapper has run on the record of line i
Transformed(i) == TransformOver \/ (stage = "transform" /\ idx > i)

\* the record's descriptor cannot be parsed or transformed
CannotTransform(rec) ==
    LET parts == SplitTab(Strip(FormatLine(rec)))
    IN  \/ ~parts.ok
        \/ ~FromString(parts.val.value).ok
        \/ ~to_blit(FromString(parts.val.value).val).ok

\* C1: when some attempt succeeds (at attempt k <= 3, the earlier ones
\* having failed), the one record the probe stage emits has the unmodified
\* identifier as its key, not a "FAIL <n> ..." key, and the analyzer
\* descriptor as its payload.
C1_RetryRecovery ==
    \A i \in Lines :
        (Probed(i) /\ probeLog[i].succeeded)
        => /\ Len(probeOut[i]) = 1
           /\ probeOut[i][1].key = input[i]
           /\ ~StartsWithFail(probeOut[i][1].key)
           /\ \E d \in PipelineDescriptors :
                 probeOut[i][1].value = JpylyzerToString(d)

\* C3: when every attempt fails the probe stage makes exactly 3 attempts
\* (never a 4th) and emits key "FAIL 3 <identifier>" with the description of
\* the last error.
C3_RetryBound ==
    \A i \in Lines :
        /\ probeLog[i].tries <= 3
        /\ (Probed(i) /\ ~probeLog[i].succeeded)
           => /\ probeLog[i].tries = 3
              /\ probeOut[i] = <<[key |-> FailKey(3, input[i]),
                                  value |-> ErrorText(probeLog[i].lastErr)]>>

\* three failed attempts, the first and the last with different errors
C3_Witness ==
    \E i \in Lines :
        /\ Probed(i) /\ ~probeLog[i].succeeded /\ probeLog[i].tries = 3
        /\ probeLog[i].lastErr = "timed out"
        /\ probeOut[i][1].key = <<"FAIL ", "3", " ", ArkPrefix, "x">>
        /\ probeOut[i][1].value = <<"Error: ", "timed out">>

C8_MalformedHandled ==
    /\ stage # "failed"
    /\ \A i \in Lines :
          (/\ Transformed(i) /\ Probed(i)
           /\ ~StartsWithFail(probeOut[i][1].key)
           /\ CannotTransform(probeOut[i][1]))
          => /\ Len(blitOut[i]) = 1
             /\ StartsWithFail(blitOut[i][1].key)
             /\ blitOut[i][1].value = FormatLine(probeOut[i][1])

\* a malformed record is tagged and the record after it is transformed
C8_Witness ==
    /\ stage = "done"
    /\ Len(input) >= 2
    /\ Probed(1) /\ ~StartsWithFail(probeOut[1][1].key)
    /\ CannotTransform(probeOut[1][1])
    /\ blitOut[1] = <<[key |-> FailWith(ErrNoText),
                       value |-> FormatLine(probeOut[1][1])]>>
    /\ Len(blitOut[2]) = 1 /\ ~StartsWithFail(blitOut[2][1].key)

\* C9: the archive never ends with two entries of the same name: a
\* collision of sanitized names is fatal for the batch.
C9_CollisionFatal ==
    stage = "done" =>
        \A a \in 1..Len(zip), b \in 1..Len(zip) :
            a # b => zip[a].name # zip[b].name

\* C10: the terminal records of two distinct identifiers have distinct
\* keys, and so distinct archive entry names.
C10_DistinctKeys ==
    \A i \in Lines, j \in Lines :
        (/\ input[i] # input[j]
         /\ blitOut[i] # <<>> /\ blitOut[j] # <<>>)
        => /\ blitOut[i][1].key # blitOut[j][1].key
           /\ ZipEntry(FormatLine(blitOut[i][1])).val.name
                 # ZipEntry(FormatLine(blitOut[j][1])).val.name

\* RunJpylyzer.mapper has returned for line i
ProbeReturned(i) == stage # "probe" \/ idx > i

\* C11: the probe stage emits exactly one record for every line that is
\* neither empty nor the header sentinel, whether the attempts succeed or
\* all fail, and for an empty line or the header it emits no record and
\* makes no attempt.
C11_ProbeRecordCount ==
    \A i \in Lines :
        /\ Len(probeOut[i]) <= 1
        /\ ~Valid(input[i]) => (probeOut[i] = <<>> /\ probeLog[i].tries = 0)
        /\ ProbeReturned(i) =>
              Len(probeOut[i]) = (IF Valid(input[i]) THEN 1 ELSE 0)

\* a batch of the header line and an identifier whose attempts all fail
C11_Witness ==
    /\ stage = "transform"
    /\ \E i \in Lines, j \in Lines :
          /\ input[i] = HeaderSentinel /\ probeOut[i] = <<>>
          /\ probeLog[i].tries = 0
          /\ Valid(input[j]) /\ Len(probeOut[j]) = 1
          /\ ~probeLog[j].succeeded

\* C13: every PrecinctRun covers at least one level, its size is the
\* descriptor's precinct size at index L+1-l for every level l it covers,
\* and adjacent runs differ in size.
C13_RunsFaithfulMinimal ==
    (/\ blitPc = "done" /\ blitOutcome.ok
     /\ blitOutcome.val.has_precincts /\ LevelsMatch(blitIn))
    => LET runs == blitOutcome.val.precincts
           L == blitIn.levels.num
       IN  /\ \A k \in 1..Len(runs) :
                 /\ TagLevels(runs[k].dwt_level) # <<>>
                 /\ \A j \in 1..Len(TagLevels(runs[k].dwt_level)) :
                       LET l == TagLevels(runs[k].dwt_level)[j]
                       IN  /\ l \in 1..L
                           /\ runs[k].x = At(blitIn.Psx, L + 1 - l)
                           /\ runs[k].y = At(blitIn.Psx, L + 1 - l)
           /\ \A k \in 1..(Len(runs) - 1) : runs[k].x # runs[k + 1].x

\* both elements of a resolution pair are in the document
PairPresent(h, v) == h.kind # "absent" /\ v.kind # "absent"

\* the quotients that can be made of the generic fractions' numbers
GenericQuotients(d) ==
    {n \div m : n \in {d.tiffX.num, d.tiffY.num},
                m \in {d.tiffX.den, d.tiffY.den} \ {0}}

C15_DelayOrdering ==
    \A i \in Lines :
        LET t == probeLog[i].tries
            s == probeLog[i].sleeps
            current == stage = "probe" /\ i = idx
        IN  /\ IF current /\ pc = "try"
               THEN s = t
               ELSE s = (IF t = 0 THEN 0 ELSE t - 1)
            /\ (current /\ pc = "sleep")
               => (t >= 1 /\ t < 3 /\ ~probeLog[i].succeeded)

\* a run of three attempts with its two delays, the batch archived
C15_Witness ==
    /\ stage = "done"
    /\ \E i \in Lines :
          /\ probeLog[i].tries = 3 /\ probeLog[i].sleeps = 2
          /\ ~probeLog[i].succeeded

\* C16: once an attempt of a line has succeeded, no step makes another
\* attempt or delay for that line; the loop test leads to the yield and the
\* yield emits the record, whose payload is the descriptor obtained.
C16_NoAttemptAfterSuccess ==
    [][\A i \in Lines :
          probeLog[i].succeeded =>
             /\ probeLog'[i] = probeLog[i]
             /\ (~Probed(i) /\ pc = "while") => pc' = "yield"
             /\ (~Probed(i) /\ pc = "yield")
                => /\ Len(probeOut'[i]) = 1
                   /\ probeOut'[i][1].value = jpylyzer_xml_out
                   /\ \E d \in PipelineDescriptors :
                         jpylyzer_xml_out = JpylyzerToString(d)]_vars

\* a line whose second attempt succeeded, and its record
C16_Witness ==
    \E i \in Lines :
        /\ Probed(i) /\ probeLog[i].succeeded
        /\ probeLog[i].tries = 2 /\ probeLog[i].sleeps = 1
        /\ \E d \in PipelineDescriptors :
              probeOut[i][1].value = JpylyzerToString(d)

\* the batches of skipped lines and identifier lines: the loop does not
\* read the line, it only runs or does not run for it
LiveLines == {HeaderSentinel, <<ArkPrefix, "x">>}

InitLive == Init /\ \A i \in 1..MaxBatch : input[i] \in LiveLines

\* a step of the RunJpylyzer job: of its mapper, or its completion
ProbeStep ==
    \/ ProbeSkip
    \/ ProbeBegin
    \/ ProbeWhile
    \/ ProbeSleep
    \/ \E d \in PipelineDescriptors : ProbeTrySucceed(d)
    \/ \E e \in ProbeErrors : ProbeTryFail(e)
    \/ ProbeYield
    \/ ProbeJobDone

\* the mapper is a running process: every call of the fetcher and of the
\* analyzer returns or raises, every delay ends, and the statement that
\* follows is executed; which way an attempt ends is left open
SpecLive == InitLive /\ [][Next]_vars /\ WF_vars(ProbeStep)

\* C17: the retry loop of every identifier line ends after at most 3
\* attempts and 2 delays, and its record is then emitted, whatever the
\* attempts' outcomes.
C17_ProbeTerminates ==
    /\ [](\A i \in Lines :
             probeLog[i].tries <= 3 /\ probeLog[i].sleeps <= 2)
    /\ <>(\A i \in Lines :
             Valid(input[i]) => (Probed(i) /\ ProbeReturned(i)))

\* a line that took all 3 attempts and 2 delays and then succeeded
C17_Witness ==
    \E i \in Lines :
        /\ Probed(i) /\ ProbeReturned(i) /\ probeLog[i].succeeded
        /\ probeLog[i].tries = 3 /\ probeLog[i].sleeps = 2

\* the entry of the record of line i, from its key and payload alone
EntryOf(i) == ZipEntry(FormatLine(blitOut[i][1])).val

\* the lines whose record reaches the archive job
Records == {i \in Lines : blitOut[i] # <<>>}

NamesDistinct ==
    \A i, j \in Records : EntryOf(i).name = EntryOf(j).name => i = j

\* the mapping entry name -> content held by the zip
ZipMapping == {<<zip[k].name, zip[k].content>> : k \in 1..Len(zip)}

\* C18: for records with pairwise distinct entry names, the zip holds, in
\* whatever order the records arrive, exactly one entry per record read,
\* named and filled from that record's own key and payload; when the job
\* is done every record has been read.
C18_OrderIndependent ==
    (stage \in {"archive", "done"} /\ NamesDistinct) =>
        /\ ZipMapping = {<<EntryOf(i).name, EntryOf(i).content>> : i \in written}
        /\ Len(zip) = Cardinality(written)
        /\ stage = "done" => written = Records

\* two records with distinct names archived in the reverse of line order
C18_Witness ==
    /\ stage = "done" /\ NamesDistinct
    /\ Records = {1, 2}
    /\ zip = <<EntryOf(2), EntryOf(1)>>
====
